---- MODULE Spec2Model ----
(***************************************************************************)
(* State-machine model of the particle credit link of Moving-Earth         *)
(* (src/assets/js/CreditLink.js) and of the page wiring that drives it     *)
(* (App in src/assets/js/sketch.js).                                       *)
(*                                                                         *)
(* Units.  Lengths are kept in hundredths of a pixel (1 px = 100), times   *)
(* in milliseconds.  A particle's alpha is the exact rational              *)
(* alpha / fadeOutDuration: the field `alpha` holds the numerator, so      *)
(* alpha = 1 is the value fadeOutDuration and alpha = 0 is the value 0.    *)
(***************************************************************************)
EXTENDS Integers, Sequences, FiniteSets, TLC

VARIABLES
    appState,            \* "unloaded" | "ready" (init() done) | "failed" (App.creditLink null)
                         \* | "constructed" (App.creditLink set, init() threw)
    now,                 \* Date.now(), ms
    innerWidth,          \* window.innerWidth, px
    innerHeight,         \* window.innerHeight, px
    canvasW,             \* canvas.width, px
    canvasH,             \* canvas.height, px
    textWidth,           \* ctx.measureText(creditText).width under the current ctx.font, px
    mouse,               \* this.mouse: x and y in 1/100 px, NULL before the first move, or NaN
    isExploding,         \* this.isExploding
    explosionStartTime,  \* this.explosionStartTime
    particles,           \* this.particles, a sequence of particle records
    timers,              \* pending setTimeout(redirect, delay) calls, oldest first: [at, delay]
    rafPending,          \* number of pending requestAnimationFrame(animate) callbacks
    frames,              \* number of animate() runs so far
    scheduled,           \* number of redirect timers scheduled so far
    navigations,         \* number of assignments to window.location.href so far
    fieldNavigations,    \* the same, counted since the particle collection was last rebuilt
    uncaught             \* TRUE once a handler has thrown an error nobody caught

vars == <<appState, now, innerWidth, innerHeight, canvasW, canvasH, textWidth, mouse,
          isExploding, explosionStartTime, particles, timers, rafPending, frames,
          scheduled, navigations, fieldNavigations, uncaught>>

\* a JavaScript value that is null, a number or NaN: <<>> is null, <<n>> the number n
NULL == <<>>
Number(n) == <<n>>
NaN == <<0, 0>>

(***************************************************************************)
(* Bounds of the model                                                     *)
(***************************************************************************)
MaxTime == 3000          \* the clock stops here
MaxFrames == 3           \* animate() runs at most this often
MaxExplosions == 2       \* startExplosion() runs at most this often

ClockSteps == {1250, 1500}
Viewports == {<<1000, 800>>, <<480, 320>>}
TextWidths == {200}
DevicePixelRatios == {100, 200}                \* in hundredths: 1.0 and 2.0
ClientPoints == {<<800, 775>>, <<50, 50>>, <<400, 290>>, <<800, 100>>}
MousePoints == {<<790, 770>>}
\* explode(): cos(angle)*speed, sin(angle)*speed for speeds 5 and 2
ExplosionVelocities == {<<300, 400>>, <<-200, 0>>}
\* Particle constructor: density, noise.x, noise.y (1/1000), noiseOffset (1/100 rad)
ParticleSeeds == {[density |-> 5, noiseX |-> 200, noiseY |-> -250, noiseOffset |-> 0]}
\* what fillText paints, relative to the text origin: <<dx, dy above the baseline, alpha>>
Glyph == {<<0, 0, 255>>, <<3, 0, 201>>, <<6, 0, 200>>, <<1, 3, 255>>}

(***************************************************************************)
(* Configuration set by the CreditLink constructor                         *)
(***************************************************************************)
explosionDuration == 1500
fadeOutDuration == 500
margin == 20
maxDistance == 35
maxFontSize == 28

(***************************************************************************)
(* Arithmetic helpers                                                      *)
(***************************************************************************)
Min(a, b) == IF a < b THEN a ELSE b
Max(a, b) == IF a > b THEN a ELSE b
Abs(a) == IF a < 0 THEN -a ELSE a
\* division rounding toward zero
Quot(a, b) == IF a >= 0 THEN a \div b ELSE -((-a) \div b)

RECURSIVE SqrtBetween(_, _, _)
SqrtBetween(n, lo, hi) ==
    IF lo >= hi THEN lo
    ELSE LET mid == (lo + hi + 1) \div 2
         IN IF mid * mid <= n THEN SqrtBetween(n, mid, hi) ELSE SqrtBetween(n, lo, mid - 1)
\* Math.sqrt, rounded down; its arguments here stay below 2 * 3500^2
Sqrt(n) == SqrtBetween(n, 0, 5000)

\* 1000 * sin of an angle of 0..314 hundredths of a radian (Bhaskara's approximation)
SinHalf(x) == (16000 * x * (314 - x)) \div (5 * 314 * 314 - 4 * x * (314 - x))
\* 1000 * Math.sin(a), a in hundredths of a radian, a >= 0
Sin1000(a) == LET x == a % 628 IN IF x <= 314 THEN SinHalf(x) ELSE -SinHalf(x - 314)
\* 1000 * Math.cos(a)
Cos1000(a) == Sin1000(a + 157)

\* ToNumber(null) is 0 in JavaScript arithmetic
ToNumber(v) == IF v = NULL THEN 0 ELSE v[1]

(***************************************************************************)
(* Particle                                                                *)
(***************************************************************************)
\* new Particle(x, y); x, y in 1/100 px, seed holds the Math.random() draws
Particle(x, y, seed) ==
    [x |-> x, y |-> y, baseX |-> x, baseY |-> y,
     density |-> seed.density, vx |-> 0, vy |-> 0,
     alpha |-> fadeOutDuration,
     noiseX |-> seed.noiseX, noiseY |-> seed.noiseY, noiseOffset |-> seed.noiseOffset]

\* Particle.explode(); v is the random velocity cos(angle)*speed, sin(angle)*speed
Explode(p, v) == [p EXCEPT !.vx = v[1], !.vy = v[2]]

\* UpdateExploding with the damping of the idle branches applied to the velocity
UpdateExplodingDamped(p, currentTime, startTime, duration, fadeOut) ==
    LET elapsedTime == currentTime - startTime
        q == [p EXCEPT !.x = p.x + p.vx, !.y = p.y + p.vy,
                       !.vx = Quot(p.vx * 9, 10), !.vy = Quot(p.vy * 9, 10)]
    IN  IF elapsedTime > duration - fadeOut
        THEN [q EXCEPT !.alpha = fadeOut - (elapsedTime - (duration - fadeOut))]
        ELSE q

\* UpdateExploding taking the place it moves the particle to as its new base position
UpdateExplodingRebasing(p, currentTime, startTime, duration, fadeOut) ==
    LET elapsedTime == currentTime - startTime
        q == [p EXCEPT !.x = p.x + p.vx, !.y = p.y + p.vy,
                       !.baseX = p.x + p.vx, !.baseY = p.y + p.vy]
    IN  IF elapsedTime > duration - fadeOut
        THEN [q EXCEPT !.alpha = fadeOut - (elapsedTime - (duration - fadeOut))]
        ELSE q

\* UpdateExploding with the fade starting after fadeOut ms instead of duration - fadeOut
UpdateExplodingEarlyFade(p, currentTime, startTime, duration, fadeOut) ==
    LET elapsedTime == currentTime - startTime
        q == [p EXCEPT !.x = p.x + p.vx, !.y = p.y + p.vy]
    IN  IF elapsedTime > fadeOut
        THEN [q EXCEPT !.alpha = fadeOut - (elapsedTime - (duration - fadeOut))]
        ELSE q

\* UpdateExploding with the sign of the fade slipped: alpha grows during the fade tail
UpdateExplodingFadeIn(p, currentTime, startTime, duration, fadeOut) ==
    LET elapsedTime == currentTime - startTime
        q == [p EXCEPT !.x = p.x + p.vx, !.y = p.y + p.vy]
    IN  IF elapsedTime > duration - fadeOut
        THEN [q EXCEPT !.alpha = fadeOut + (elapsedTime - (duration - fadeOut))]
        ELSE q

\* the explosion branch of Particle.update
UpdateExploding(p, currentTime, startTime, duration, fadeOut) ==
    LET elapsedTime == currentTime - startTime
        q == [p EXCEPT !.x = p.x + p.vx, !.y = p.y + p.vy]
    IN  IF elapsedTime > duration - fadeOut
        THEN [q EXCEPT !.alpha = fadeOut - (elapsedTime - (duration - fadeOut))]
        ELSE q

\* distance < maxDistance, for dx, dy in 1/100 px
IsNear(dx, dy) ==
    /\ Abs(dx) < maxDistance * 100
    /\ Abs(dy) < maxDistance * 100
    /\ dx * dx + dy * dy < (maxDistance * 100) * (maxDistance * 100)

\* the branch of Particle.update taken when the pointer is within maxDistance
UpdateNear(p, dx, dy, currentTime) ==
    LET distance == Sqrt(dx * dx + dy * dy)
        \* Math.cos/sin(Math.atan2(dy, dx)) * force * 0.1; atan2(0, 0) is 0
        pushX == IF distance = 0 THEN 10
                 ELSE Quot(dx * (maxDistance * 100 - distance), distance * maxDistance * 10)
        pushY == IF distance = 0 THEN 0
                 ELSE Quot(dy * (maxDistance * 100 - distance), distance * maxDistance * 10)
        phase == currentTime \div 5 + p.noiseOffset
        noiseX == Quot(Sin1000(phase) * p.noiseX, 10000)
        noiseY == Quot(Cos1000(phase) * p.noiseY, 10000)
        vx == p.vx + pushX + noiseX
        vy == p.vy + pushY + noiseY
    IN  [p EXCEPT !.x = p.x + vx, !.y = p.y + vy,
                  !.vx = Quot(vx * 9, 10), !.vy = Quot(vy * 9, 10)]

\* the branch of Particle.update taken when the pointer is far away
UpdateReturn(p) ==
    LET vx == p.vx + Quot((p.baseX - p.x) * 5, 100)
        vy == p.vy + Quot((p.baseY - p.y) * 5, 100)
    IN  [p EXCEPT !.x = p.x + vx, !.y = p.y + vy,
                  !.vx = Quot(vx * 9, 10), !.vy = Quot(vy * 9, 10)]

\* Particle.update(mouseX, mouseY, currentTime, isExploding, explosionStartTime, ...)
Update(p, mouseX, mouseY, currentTime, exploding, startTime, duration, fadeOut) ==
    IF exploding
    THEN UpdateExploding(p, currentTime, startTime, duration, fadeOut)
    ELSE IF mouseX = NaN \/ mouseY = NaN
    THEN UpdateReturn(p)             \* distance is NaN, and NaN < maxDistance is false
    ELSE LET dx == ToNumber(mouseX) - p.x
             dy == ToNumber(mouseY) - p.y
         IN  IF IsNear(dx, dy) THEN UpdateNear(p, dx, dy, currentTime) ELSE UpdateReturn(p)

(***************************************************************************)
(* CreditLink                                                              *)
(***************************************************************************)
\* 100 * Math.min(window.innerWidth / 20, 28)
FontSize(w) == Min(w * 5, maxFontSize * 100)

\* the pixels fillText(creditText, x, y) paints with a non-zero alpha
Rasterize(x, y) == {<<x + g[1], y - g[2], g[3]>> : g \in Glyph}

\* Math.max(1, Math.floor(3 * window.devicePixelRatio)), dpr in hundredths
Step(dpr) == Max(1, (3 * dpr) \div 100)

\* SampleCells with the threshold test alpha >= 200
SampleCellsInclusive(mask, w, h, step) ==
    {<<m[1], m[2]>> : m \in {n \in mask : /\ n[1] >= 0 /\ n[1] < w /\ n[1] % step = 0
                                          /\ n[2] >= 0 /\ n[2] < h /\ n[2] % step = 0
                                          /\ n[3] >= 200}}

\* the cells the sampling loops of createParticles push a particle for
SampleCells(mask, w, h, step) ==
    {<<m[1], m[2]>> : m \in {n \in mask : /\ n[1] >= 0 /\ n[1] < w /\ n[1] % step = 0
                                          /\ n[2] >= 0 /\ n[2] < h /\ n[2] % step = 0
                                          /\ n[3] > 200}}

\* the order the loops visit them in: y outer, x inner
RECURSIVE RowMajor(_)
RowMajor(cells) ==
    IF cells = {} THEN <<>>
    ELSE LET first == CHOOSE c \in cells :
                        \A d \in cells : c[2] < d[2] \/ (c[2] = d[2] /\ c[1] <= d[1])
         IN  <<first>> \o RowMajor(cells \ {first})

\* this.particles after createParticles(); seeds[i] holds particle i's random draws
CreateParticles(w, h, tw, dpr, seeds) ==
    LET cells == RowMajor(SampleCells(Rasterize(w - tw - margin, h - margin), w, h, Step(dpr)))
    IN  [i \in 1..Len(cells) |-> Particle(cells[i][1] * 100, cells[i][2] * 100, seeds[i])]

\* how many particles createParticles() builds
ParticleCount(w, h, tw, dpr) ==
    Cardinality(SampleCells(Rasterize(w - tw - margin, h - margin), w, h, Step(dpr)))

\* getTextBounds(), in 1/100 px
GetTextBounds ==
    [x |-> (canvasW - textWidth - margin) * 100,
     y |-> (canvasH - margin) * 100,
     width |-> textWidth * 100,
     height |-> (FontSize(innerWidth) * 12) \div 10]

\* canvas.getBoundingClientRect(): the canvas is styled to fill the viewport
BoundingClientRect == [left |-> 0, top |-> 0, width |-> innerWidth, height |-> innerHeight]

\* (client - rect.left) * (canvas.width / rect.width), in 1/100 px
ToCanvas(client, origin, canvasSize, rectSize) ==
    ((client - origin) * canvasSize * 100) \div rectSize

\* InTextBounds with the right and bottom edges excluded
InTextBoundsExclusive(px, py, b) ==
    /\ px >= b.x /\ px < b.x + b.width
    /\ py >= b.y - b.height /\ py < b.y

\* InTextBounds with the vertical test left out
InTextBoundsXOnly(px, py, b) ==
    /\ px >= b.x /\ px <= b.x + b.width

\* the bounding-box test of handleClick and handleTouch
InTextBounds(px, py, b) ==
    /\ px >= b.x /\ px <= b.x + b.width
    /\ py >= b.y - b.height /\ py <= b.y

\* animate(): update (and draw) every particle with the current pointer and clock
Animate(ps) ==
    [i \in 1..Len(ps) |->
        Update(ps[i], mouse.x, mouse.y, now, isExploding, explosionStartTime,
               explosionDuration, fadeOutDuration)]

\* StartExplosion with the forEach missing the first particle
StartExplosionSkippingFirst ==
    /\ isExploding' = TRUE
    /\ explosionStartTime' = now
    /\ \E vs \in [1..Len(particles) -> ExplosionVelocities] :
          particles' = [i \in 1..Len(particles) |->
                           IF i = 1 THEN particles[i] ELSE Explode(particles[i], vs[i])]
    /\ timers' = Append(timers, [at |-> now, delay |-> explosionDuration])
    /\ scheduled' = scheduled + 1

\* StartExplosion with the redirect timed for the start of the fade
StartExplosionEarlyRedirect ==
    /\ isExploding' = TRUE
    /\ explosionStartTime' = now
    /\ \E vs \in [1..Len(particles) -> ExplosionVelocities] :
          particles' = [i \in 1..Len(particles) |-> Explode(particles[i], vs[i])]
    /\ timers' = Append(timers, [at |-> now, delay |-> explosionDuration - fadeOutDuration])
    /\ scheduled' = scheduled + 1

\* startExplosion()
StartExplosion ==
    /\ isExploding' = TRUE
    /\ explosionStartTime' = now
    /\ \E vs \in [1..Len(particles) -> ExplosionVelocities] :
          particles' = [i \in 1..Len(particles) |-> Explode(particles[i], vs[i])]
    /\ timers' = Append(timers, [at |-> now, delay |-> explosionDuration])
    /\ scheduled' = scheduled + 1

\* startExplosion() stays within the bounds of the model
CanExplode == scheduled < MaxExplosions /\ now + explosionDuration <= MaxTime

(***************************************************************************)
(* Initial state: the scripts have been evaluated, the load event has not  *)
(* been delivered yet (App.creditLink is null, the canvas has its default  *)
(* 300 x 150 buffer).                                                      *)
(***************************************************************************)
Init ==
    /\ appState = "unloaded"
    /\ now = 0
    /\ \E v \in Viewports : innerWidth = v[1] /\ innerHeight = v[2]
    /\ canvasW = 300
    /\ canvasH = 150
    /\ textWidth = 0
    /\ mouse = [x |-> NULL, y |-> NULL]
    /\ isExploding = FALSE
    /\ explosionStartTime = 0
    /\ particles = <<>>
    /\ timers = <<>>
    /\ rafPending = 0
    /\ frames = 0
    /\ scheduled = 0
    /\ navigations = 0
    /\ fieldNavigations = 0
    /\ uncaught = FALSE

\* what createParticles() can build on a w x h canvas: the measured text width and
\* the collection, over the text metrics, pixel ratios and random draws of the model
Fields(w, h) ==
    UNION {{[textWidth |-> tw, particles |-> CreateParticles(w, h, tw, dpr, seeds)] :
                seeds \in [1..ParticleCount(w, h, tw, dpr) -> ParticleSeeds]} :
           tw \in TextWidths, dpr \in DevicePixelRatios}

\* ctx.getImageData(0, 0, w, h) throws an IndexSizeError when w or h is 0
GetImageDataThrows(w, h) == w = 0 \/ h = 0

\* ctx.measureText(creditText).width on a window w wide: the font is 0 px for w = 0
TextWidthsAt(w) == IF w = 0 THEN {0} ELSE TextWidths

\* what createParticles() leaves behind on a w x h canvas: a field, or, when
\* getImageData throws, the measured text width and the emptied collection
Rebuilt(w, h) ==
    IF GetImageDataThrows(w, h)
    THEN {[textWidth |-> tw, particles |-> <<>>] : tw \in TextWidthsAt(w)}
    ELSE Fields(w, h)

\* the load event: App.init(), i.e. new CreditLink(...) and CreditLink.init(); a
\* missing canvas element makes the constructor throw into App.init's catch, and so
\* does createParticles() on a canvas without pixels, after App.creditLink is set and
\* before init() adds the listeners and starts the frame loop
Load ==
    /\ appState = "unloaded"
    /\ \E canvasPresent \in BOOLEAN :
          IF canvasPresent /\ ~GetImageDataThrows(innerWidth, innerHeight)
          THEN /\ appState' = "ready"
               /\ canvasW' = innerWidth
               /\ canvasH' = innerHeight
               /\ \E f \in Fields(innerWidth, innerHeight) :
                     /\ textWidth' = f.textWidth
                     /\ particles' = Animate(f.particles)
               /\ fieldNavigations' = 0
               /\ rafPending' = rafPending + 1
               /\ frames' = frames + 1
          ELSE IF canvasPresent
          THEN /\ appState' = "constructed"
               /\ canvasW' = innerWidth
               /\ canvasH' = innerHeight
               /\ \E f \in Rebuilt(innerWidth, innerHeight) :
                     /\ textWidth' = f.textWidth
                     /\ particles' = f.particles
               /\ fieldNavigations' = 0
               /\ UNCHANGED <<rafPending, frames>>
          ELSE /\ appState' = "failed"
               /\ UNCHANGED <<canvasW, canvasH, textWidth, particles, rafPending, frames,
                              fieldNavigations>>
    /\ UNCHANGED <<now, innerWidth, innerHeight, mouse, isExploding, explosionStartTime,
                   timers, scheduled, navigations, uncaught>>

\* Resize, had createParticles() not emptied this.particles before it samples
ResizeKeepingParticles(v) ==
    /\ appState # "unloaded"
    /\ innerWidth' = v[1]
    /\ innerHeight' = v[2]
    /\ IF appState \in {"ready", "constructed"}
       THEN /\ canvasW' = v[1]
            /\ canvasH' = v[2]
            /\ \E f \in Rebuilt(v[1], v[2]) :
                  /\ textWidth' = f.textWidth
                  /\ particles' = particles \o f.particles
            /\ fieldNavigations' = 0
       ELSE UNCHANGED <<canvasW, canvasH, textWidth, particles, fieldNavigations>>
    /\ UNCHANGED <<appState, now, mouse, isExploding, explosionStartTime, timers,
                   rafPending, frames, scheduled, navigations, uncaught>>

\* Resize, had handleResize() cleared the redirect timers of the field it replaces
ResizeClearingTimers(v) ==
    /\ appState # "unloaded"
    /\ innerWidth' = v[1]
    /\ innerHeight' = v[2]
    /\ IF appState \in {"ready", "constructed"}
       THEN /\ canvasW' = v[1]
            /\ canvasH' = v[2]
            /\ \E f \in Rebuilt(v[1], v[2]) :
                  /\ textWidth' = f.textWidth
                  /\ particles' = f.particles
            /\ fieldNavigations' = 0
            /\ timers' = <<>>
       ELSE UNCHANGED <<canvasW, canvasH, textWidth, particles, fieldNavigations, timers>>
    /\ UNCHANGED <<appState, now, mouse, isExploding, explosionStartTime,
                   rafPending, frames, scheduled, navigations, uncaught>>

\* the window is resized to v and the resize event is delivered: App.handleResize(),
\* i.e. CreditLink.handleResize() when App.creditLink is set; an error createParticles()
\* throws is caught by App.handleResize
Resize(v) ==
    /\ appState # "unloaded"
    /\ innerWidth' = v[1]
    /\ innerHeight' = v[2]
    /\ IF appState \in {"ready", "constructed"}
       THEN /\ canvasW' = v[1]
            /\ canvasH' = v[2]
            /\ \E f \in Rebuilt(v[1], v[2]) :
                  /\ textWidth' = f.textWidth
                  /\ particles' = f.particles
            /\ fieldNavigations' = 0
       ELSE UNCHANGED <<canvasW, canvasH, textWidth, particles, fieldNavigations>>
    /\ UNCHANGED <<appState, now, mouse, isExploding, explosionStartTime, timers,
                   rafPending, frames, scheduled, navigations, uncaught>>

\* handleInteraction(event): the pointer position in canvas coordinates; a rect of
\* width 0 belongs to a canvas of width 0, and the scale 0 / 0 is NaN
PointerAt(pt) ==
    LET rect == BoundingClientRect
    IN  [x |-> IF rect.width = 0 THEN NaN
               ELSE Number(ToCanvas(pt[1], rect.left, canvasW, rect.width)),
         y |-> IF rect.height = 0 THEN NaN
               ELSE Number(ToCanvas(pt[2], rect.top, canvasH, rect.height))]

\* MouseMove running a frame's update of the particles on top of recording the pointer
MouseMoveUpdatingParticles(pt) ==
    /\ appState = "ready"
    /\ mouse' = PointerAt(pt)
    /\ particles' = Animate(particles)
    /\ UNCHANGED <<appState, now, innerWidth, innerHeight, canvasW, canvasH, textWidth,
                   isExploding, explosionStartTime, timers, rafPending, frames,
                   scheduled, navigations, fieldNavigations, uncaught>>

\* a mousemove event on the window
MouseMove(pt) ==
    /\ appState = "ready"
    /\ mouse' = PointerAt(pt)
    /\ UNCHANGED <<appState, now, innerWidth, innerHeight, canvasW, canvasH, textWidth,
                   isExploding, explosionStartTime, particles, timers, rafPending, frames,
                   scheduled, navigations, fieldNavigations, uncaught>>

\* a touchmove event on the window; pt is event.touches[0]
TouchMove(pt) ==
    /\ appState = "ready"
    /\ mouse' = PointerAt(pt)
    /\ UNCHANGED <<appState, now, innerWidth, innerHeight, canvasW, canvasH, textWidth,
                   isExploding, explosionStartTime, particles, timers, rafPending, frames,
                   scheduled, navigations, fieldNavigations, uncaught>>

\* the point of a click or touch lies inside the text bounds; every comparison with
\* NaN is false
Hits(pt) ==
    /\ PointerAt(pt).x # NaN
    /\ PointerAt(pt).y # NaN
    /\ InTextBounds(PointerAt(pt).x[1], PointerAt(pt).y[1], GetTextBounds)

\* a click event on the canvas: handleClick(event)
Click(pt) ==
    /\ appState = "ready"
    /\ IF Hits(pt)
       THEN /\ CanExplode
            /\ StartExplosion
       ELSE UNCHANGED <<isExploding, explosionStartTime, particles, timers, scheduled>>
    /\ UNCHANGED <<appState, now, innerWidth, innerHeight, canvasW, canvasH, textWidth,
                   mouse, rafPending, frames, navigations, fieldNavigations, uncaught>>

\* a touchend event on the canvas: handleTouch(event); touches is event.touches, the
\* touch points still on the surface, and reading touches[0] of none throws
Touch(touches) ==
    /\ appState = "ready"
    /\ IF touches = <<>>
       THEN /\ uncaught' = TRUE
            /\ UNCHANGED <<isExploding, explosionStartTime, particles, timers, scheduled>>
       ELSE /\ IF Hits(touches[1])
               THEN /\ CanExplode
                    /\ StartExplosion
               ELSE UNCHANGED <<isExploding, explosionStartTime, particles, timers,
                                scheduled>>
            /\ UNCHANGED uncaught
    /\ UNCHANGED <<appState, now, innerWidth, innerHeight, canvasW, canvasH, textWidth,
                   mouse, rafPending, frames, navigations, fieldNavigations>>

\* Tick, had animate() requested the next frame only while there are particles
TickStoppingWhenEmpty ==
    /\ appState = "ready"
    /\ rafPending > 0
    /\ frames < MaxFrames
    /\ particles' = Animate(particles)
    /\ rafPending' = (rafPending - 1) + (IF particles = <<>> THEN 0 ELSE 1)
    /\ frames' = frames + 1
    /\ UNCHANGED <<appState, now, innerWidth, innerHeight, canvasW, canvasH, textWidth,
                   mouse, isExploding, explosionStartTime, timers, scheduled, navigations,
                   fieldNavigations, uncaught>>

\* an animation frame: animate() runs and requests the next frame
Tick ==
    /\ appState = "ready"
    /\ rafPending > 0
    /\ frames < MaxFrames
    /\ particles' = Animate(particles)
    /\ rafPending' = (rafPending - 1) + 1
    /\ frames' = frames + 1
    /\ UNCHANGED <<appState, now, innerWidth, innerHeight, canvasW, canvasH, textWidth,
                   mouse, isExploding, explosionStartTime, timers, scheduled, navigations,
                   fieldNavigations, uncaught>>

\* the oldest redirect timer has run its delay and its callback runs:
\* window.location.href = this.redirectURL (the page lives on while the browser navigates)
RedirectFire ==
    /\ timers # <<>>
    /\ Head(timers).at + Head(timers).delay <= now
    /\ timers' = Tail(timers)
    /\ navigations' = navigations + 1
    /\ fieldNavigations' = fieldNavigations + 1
    /\ UNCHANGED <<appState, now, innerWidth, innerHeight, canvasW, canvasH, textWidth,
                   mouse, isExploding, explosionStartTime, particles, rafPending, frames,
                   scheduled, uncaught>>

\* time passes: d ms, or what is left until the clock of the model stops
AdvanceClock(d) ==
    /\ now < MaxTime
    /\ now' = Min(now + d, MaxTime)
    /\ UNCHANGED <<appState, innerWidth, innerHeight, canvasW, canvasH, textWidth, mouse,
                   isExploding, explosionStartTime, particles, timers, rafPending, frames,
                   scheduled, navigations, fieldNavigations, uncaught>>

TouchLists == {<<>>} \cup {<<pt>> : pt \in ClientPoints}

Next ==
    \/ Load
    \/ \E v \in Viewports : Resize(v)
    \/ \E pt \in MousePoints : MouseMove(pt)
    \/ \E pt \in MousePoints : TouchMove(pt)
    \/ \E pt \in ClientPoints : Click(pt)
    \/ \E touches \in TouchLists : Touch(touches)
    \/ Tick
    \/ RedirectFire
    \/ \E d \in ClockSteps : AdvanceClock(d)

Spec == Init /\ [][Next]_vars

\* the host's event loop runs a timer's callback once it is due, and time passes
FairSpec == Spec /\ WF_vars(RedirectFire) /\ WF_vars(\E d \in ClockSteps : AdvanceClock(d))

(***************************************************************************)
(* The hit test on its own: the page has loaded on one of HitViewports     *)
(* with one of HitTextWidths as the measured text width, at one of         *)
(* HitTimes, and is clicked at the points of HitPoints (the corners of     *)
(* every box, one pixel inside and outside them, and the spec's examples). *)
(***************************************************************************)
HitViewports == {<<1000, 800>>, <<480, 320>>, <<400, 300>>}
HitTextWidths == {200, 300}
HitTimes == {0, 750, 1500}
HitXs ==
    {50, 800} \cup UNION {{v[1] - tw - 21, v[1] - tw - 20, v[1] - 20, v[1] - 19} :
                             v \in HitViewports, tw \in HitTextWidths}
HitYs ==
    {50, 775} \cup UNION {{v[2] - 19, v[2] - 20, v[2] - 21,
                           v[2] - 20 - (6 * Min(v[1], 560)) \div 100,
                           v[2] - 21 - (6 * Min(v[1], 560)) \div 100} : v \in HitViewports}
HitPoints == HitXs \X HitYs

HitInit ==
    /\ appState = "ready"
    /\ now \in HitTimes
    /\ \E v \in HitViewports :
          /\ innerWidth = v[1] /\ innerHeight = v[2]
          /\ canvasW = v[1] /\ canvasH = v[2]
    /\ mouse = [x |-> NULL, y |-> NULL]
    /\ isExploding = FALSE
    /\ explosionStartTime = 0
    /\ \E tw \in HitTextWidths, dpr \in DevicePixelRatios :
          /\ textWidth = tw
          /\ \E seeds \in [1..ParticleCount(canvasW, canvasH, tw, dpr) -> ParticleSeeds] :
                particles = Animate(CreateParticles(canvasW, canvasH, tw, dpr, seeds))
    /\ timers = <<>>
    /\ rafPending = 1
    /\ frames = 1
    /\ scheduled = 0
    /\ navigations = 0
    /\ fieldNavigations = 0
    /\ uncaught = FALSE

HitNext == \E pt \in HitPoints : Click(pt)

HitSpec == HitInit /\ [][HitNext]_vars

(***************************************************************************)
(* Particle.update in the explosion on its own: the page has loaded, the   *)
(* text was clicked at one of UpdateStarts, no frame has run since, and    *)
(* the clock stands one of ElapsedSamples later; frames run.               *)
(***************************************************************************)
UpdateStarts == {0, 250}
ElapsedSamples == {100 * k : k \in 0..20}

UpdateInit ==
    /\ appState = "ready"
    /\ \E v \in Viewports :
          /\ innerWidth = v[1] /\ innerHeight = v[2]
          /\ canvasW = v[1] /\ canvasH = v[2]
    /\ mouse = [x |-> NULL, y |-> NULL]
    /\ isExploding = TRUE
    /\ explosionStartTime \in UpdateStarts
    /\ \E e \in ElapsedSamples : now = explosionStartTime + e
    /\ \E f \in Fields(canvasW, canvasH) :
          /\ textWidth = f.textWidth
          /\ \E vs \in [1..Len(f.particles) -> ExplosionVelocities] :
                particles = [i \in 1..Len(f.particles) |-> Explode(f.particles[i], vs[i])]
    /\ timers = <<[at |-> explosionStartTime, delay |-> explosionDuration]>>
    /\ rafPending = 1
    /\ frames = 1
    /\ scheduled = 1
    /\ navigations = 0
    /\ fieldNavigations = 0
    /\ uncaught = FALSE

UpdateNext == Tick

UpdateSpec == UpdateInit /\ [][UpdateNext]_vars

(***************************************************************************)
(* The page in a small or empty window: it loads in a window of            *)
(* EdgeViewports and is resized among them; the pointer moves to           *)
(* EdgeMousePoints and clicks and taps the points of EdgePoints.  The      *)
(* 232 x 38 window puts the text origin at (12, 18), next to the canvas    *)
(* origin; on the 233 x 38 window no painted pixel falls on the stride     *)
(* grid; a window without width or height gives the canvas no pixels.      *)
(***************************************************************************)
EdgeViewports == {<<232, 38>>, <<233, 38>>, <<0, 0>>, <<0, 38>>}
EdgePoints == {<<100, 10>>, <<5, 30>>}
EdgeMousePoints == {<<5, 30>>}
EdgeTouchLists == {<<>>} \cup {<<pt>> : pt \in EdgePoints}

EdgeInit ==
    /\ appState = "unloaded"
    /\ now = 0
    /\ \E v \in EdgeViewports : innerWidth = v[1] /\ innerHeight = v[2]
    /\ canvasW = 300
    /\ canvasH = 150
    /\ textWidth = 0
    /\ mouse = [x |-> NULL, y |-> NULL]
    /\ isExploding = FALSE
    /\ explosionStartTime = 0
    /\ particles = <<>>
    /\ timers = <<>>
    /\ rafPending = 0
    /\ frames = 0
    /\ scheduled = 0
    /\ navigations = 0
    /\ fieldNavigations = 0
    /\ uncaught = FALSE

EdgeNext ==
    \/ Load
    \/ \E v \in EdgeViewports : Resize(v)
    \/ \E pt \in EdgeMousePoints : MouseMove(pt)
    \/ \E pt \in EdgeMousePoints : TouchMove(pt)
    \/ \E pt \in EdgePoints : Click(pt)
    \/ \E touches \in EdgeTouchLists : Touch(touches)
    \/ Tick
    \/ RedirectFire
    \/ \E d \in ClockSteps : AdvanceClock(d)

EdgeSpec == EdgeInit /\ [][EdgeNext]_vars

(***************************************************************************)
(* The sampling of createParticles on its own: the page has loaded on one  *)
(* of SampleViewports (they put the text origin at 0..9 by 0..5, so that   *)
(* the painted pixels fall on and off the stride grid and off the canvas)  *)
(* under one of SampleRatios (strides 1, 3, 4 and 6), and the collection   *)
(* is rebuilt under any of them.                                           *)
(***************************************************************************)
SampleViewports == {<<w, h>> : w \in 218..229, h \in 20..25}
SampleRatios == {50, 100, 150, 200}

SampleInit ==
    /\ appState = "ready"
    /\ now = 0
    /\ \E v \in SampleViewports :
          /\ innerWidth = v[1] /\ innerHeight = v[2]
          /\ canvasW = v[1] /\ canvasH = v[2]
    /\ mouse = [x |-> NULL, y |-> NULL]
    /\ isExploding = FALSE
    /\ explosionStartTime = 0
    /\ \E tw \in TextWidths, dpr \in SampleRatios :
          /\ textWidth = tw
          /\ \E seeds \in [1..ParticleCount(canvasW, canvasH, tw, dpr) -> ParticleSeeds] :
                particles = Animate(CreateParticles(canvasW, canvasH, tw, dpr, seeds))
    /\ timers = <<>>
    /\ rafPending = 1
    /\ frames = 1
    /\ scheduled = 0
    /\ navigations = 0
    /\ fieldNavigations = 0
    /\ uncaught = FALSE

\* a resize event that finds the window as large as it was, with
\* window.devicePixelRatio = dpr: handleResize(), i.e. createParticles() on the canvas
\* as it is
Resample(dpr) ==
    /\ appState = "ready"
    /\ IF GetImageDataThrows(canvasW, canvasH)
       THEN /\ textWidth' \in TextWidthsAt(innerWidth)
            /\ particles' = <<>>
       ELSE \E tw \in TextWidths :
               /\ textWidth' = tw
               /\ \E seeds \in [1..ParticleCount(canvasW, canvasH, tw, dpr) -> ParticleSeeds] :
                     particles' = CreateParticles(canvasW, canvasH, tw, dpr, seeds)
    /\ fieldNavigations' = 0
    /\ UNCHANGED <<appState, now, innerWidth, innerHeight, canvasW, canvasH, mouse,
                   isExploding, explosionStartTime, timers, rafPending, frames, scheduled,
                   navigations, uncaught>>

SampleNext == \E dpr \in SampleRatios : Resample(dpr)

SampleSpec == SampleInit /\ [][SampleNext]_vars

(***************************************************************************)
(* The idle field left to itself: the page has loaded on one of            *)
(* SpringViewports, the pointer has never moved or rests at one of         *)
(* SpringPointers (more than 100 px from every particle), no explosion has *)
(* been started, and every particle is away from its base position by one  *)
(* of SpringStarts, <<x - baseX, y - baseY, vx, vy>>, as pushes of the     *)
(* pointer have left it.  Frames run; they are not counted.  The 232 x 38  *)
(* window puts a particle at (12, 18), within 35 px of the canvas origin.  *)
(***************************************************************************)
SpringViewports == {<<1000, 800>>, <<232, 38>>}
SpringPointers == {<<500, 400>>, <<180, 30>>}
SpringStarts == {<<0, 0, 0, 0>>, <<1000, -700, 0, 0>>, <<-900, 500, -200, 300>>}
\* a particle whose Math.random() draws gave it no noise
SpringSeeds == {[density |-> 5, noiseX |-> 0, noiseY |-> 0, noiseOffset |-> 0]}

SpringInit ==
    /\ appState = "ready"
    /\ now = 0
    /\ \E v \in SpringViewports :
          /\ innerWidth = v[1] /\ innerHeight = v[2]
          /\ canvasW = v[1] /\ canvasH = v[2]
    /\ \/ mouse = [x |-> NULL, y |-> NULL]
       \/ \E pt \in SpringPointers :
             /\ pt[1] < canvasW /\ pt[2] < canvasH
             /\ mouse = PointerAt(pt)
    /\ isExploding = FALSE
    /\ explosionStartTime = 0
    /\ \E tw \in TextWidths, dpr \in DevicePixelRatios :
          /\ textWidth = tw
          /\ \E seeds \in [1..ParticleCount(canvasW, canvasH, tw, dpr) -> SpringSeeds],
                s \in [1..ParticleCount(canvasW, canvasH, tw, dpr) -> SpringStarts] :
                particles =
                   [i \in 1..ParticleCount(canvasW, canvasH, tw, dpr) |->
                       [CreateParticles(canvasW, canvasH, tw, dpr, seeds)[i]
                           EXCEPT !.x = @ + s[i][1], !.y = @ + s[i][2],
                                  !.vx = s[i][3], !.vy = s[i][4]]]
    /\ timers = <<>>
    /\ rafPending = 1
    /\ frames = 1
    /\ scheduled = 0
    /\ navigations = 0
    /\ fieldNavigations = 0
    /\ uncaught = FALSE

\* an animation frame as Tick, the run not counted in frames
Frame ==
    /\ appState = "ready"
    /\ rafPending > 0
    /\ particles' = Animate(particles)
    /\ rafPending' = (rafPending - 1) + 1
    /\ UNCHANGED <<appState, now, innerWidth, innerHeight, canvasW, canvasH, textWidth,
                   mouse, isExploding, explosionStartTime, timers, frames, scheduled,
                   navigations, fieldNavigations, uncaught>>

SpringNext == Frame

SpringSpec == SpringInit /\ [][SpringNext]_vars

\* the browser runs a requested animation frame
SpringFairSpec == SpringSpec /\ WF_vars(Frame)

(***************************************************************************)
(* Properties                                                              *)
(***************************************************************************)
\* an activation at client point pt: a click, or a tap whose touches[0] is pt
Activate(pt) == Click(pt) \/ Touch(<<pt>>)

Velocities(ps) == [i \in DOMAIN ps |-> <<ps[i].vx, ps[i].vy>>]

\* C1: an activation inside the text bounds that arrives while isExploding is already
\* true is a no-op: explosionStartTime, every particle's velocity and the pending
\* redirect timers stay as they are, so no second redirect is scheduled.
C1_ActivationWhileExplodingIsNoOp ==
    [][(isExploding /\ \E pt \in ClientPoints : Hits(pt) /\ Activate(pt))
          => /\ UNCHANGED <<explosionStartTime, timers>>
             /\ Velocities(particles') = Velocities(particles)]_vars

\* C2: within one field (between two rebuilds of the particle collection) the
\* redirect URL is assigned at most once, and never without an earlier activation
\* inside the text bounds.
C2_OneNavigationPerField ==
    /\ fieldNavigations <= 1
    /\ navigations > 0 => scheduled > 0

\* C3: after handleResize the exploding flag is false, whatever it was before.
C3_ResizeClearsExploding ==
    [][(appState = "ready" /\ \E v \in Viewports : Resize(v)) => isExploding' = FALSE]_vars

\* a step leaves every pending redirect timer pending, unless it is the step that
\* runs the oldest one
TimersKept ==
    \/ /\ Len(timers') >= Len(timers)
       /\ SubSeq(timers', 1, Len(timers)) = timers
    \/ /\ timers # <<>>
       /\ timers' = Tail(timers)
       /\ navigations' = navigations + 1

\* C4: once an explosion has started its redirect eventually fires (the k-th
\* startExplosion() is followed by a k-th navigation), and no step - resize, click,
\* pointer move or frame tick - removes a scheduled redirect without running it.
C4_RedirectEventuallyFires ==
    /\ \A k \in 1..MaxExplosions : (scheduled >= k) ~> (navigations >= k)
    /\ [][TimersKept]_vars

\* a redirect that was scheduled before a resize has fired after it: the collection is
\* a fresh one (no particle was exploded) although an explosion has been started
C4_Witness ==
    /\ scheduled = 1 /\ navigations = 1 /\ fieldNavigations = 1
    /\ particles # <<>>
    /\ \A i \in DOMAIN particles : particles[i].vx = 0 /\ particles[i].vy = 0

\* C5: the redirect scheduled by an activation at time t (the newest timer belongs to
\* the newest explosionStartTime) never fires before the clock reaches t + 1500, can
\* fire as soon as the clock has reached it, and nothing in this depends on frames.
C5_RedirectAfterExplosionDuration ==
    /\ [](timers # <<>> => timers[Len(timers)].at = explosionStartTime)
    /\ [][navigations' # navigations => now >= Head(timers).at + 1500]_vars
    /\ []((timers # <<>> /\ now >= Head(timers).at + 1500) => ENABLED RedirectFire)

\* the redirect has fired at exactly t + 1500 although no frame tick has run since the
\* load
C5_Witness ==
    /\ scheduled = 1 /\ navigations = 1 /\ timers = <<>>
    /\ frames = 1
    /\ now = explosionStartTime + 1500

\* the text bounding box as the spec states it, in 1/100 px: canvas W x H, measured
\* text width, margin 20, height 1.2 * font size
BoxLeft == (canvasW - textWidth - 20) * 100
BoxRight == (canvasW - 20) * 100
BoxBottom == (canvasH - 20) * 100
BoxTop == BoxBottom - (12 * Min(innerWidth * 5, 2800)) \div 10
InsideBox(pt) ==
    /\ BoxLeft <= PointerAt(pt).x[1] /\ PointerAt(pt).x[1] <= BoxRight
    /\ BoxTop <= PointerAt(pt).y[1] /\ PointerAt(pt).y[1] <= BoxBottom

\* C6: an activation at a point outside the text bounding box never sets isExploding,
\* never explodes a particle and never schedules a redirect.
C6_ActivationOutsideDoesNothing ==
    [][\A pt \in ClientPoints :
          (~InsideBox(pt) /\ Activate(pt))
             => UNCHANGED <<isExploding, explosionStartTime, particles, timers, scheduled>>]_vars

\* an idle field with particles in which a client point misses the box only vertically
C6_Witness ==
    /\ appState = "ready" /\ ~isExploding /\ particles # <<>>
    /\ \E pt \in ClientPoints :
          /\ ~InsideBox(pt)
          /\ BoxLeft <= PointerAt(pt).x[1] /\ PointerAt(pt).x[1] <= BoxRight

\* C8: once an explosion has begun, no frame tick leaves a particle with a larger alpha
\* than it had before the tick.
C8_AlphaNonIncreasing ==
    [][(isExploding /\ Tick)
          => \A i \in DOMAIN particles : particles'[i].alpha <= particles[i].alpha]_vars

\* C9: every particle's alpha lies in [0, 1] in every reachable state.
C9_AlphaInUnitInterval ==
    \A i \in DOMAIN particles :
        0 <= particles[i].alpha /\ particles[i].alpha <= fadeOutDuration

\* a step leaves every alpha at most 1, and an alpha that is negative after it was
\* negative before it or was computed by a frame tick that ran with more than
\* explosionDuration elapsed since explosionStartTime
AlphaStep ==
    \A i \in DOMAIN particles' :
        LET a == particles'[i].alpha
            elapsed == now - explosionStartTime
        IN  /\ a <= fadeOutDuration
            /\ a < 0 => \/ i \in DOMAIN particles /\ particles[i].alpha = a
                        \/ /\ isExploding /\ Tick
                           /\ elapsed > 1500
                           /\ a = fadeOutDuration - (elapsed - 1000)

\* C9 (amended): alpha never exceeds 1; it is at least 0 until a frame tick runs with
\* more than explosionDuration elapsed, which sets it to 1 - (elapsed - 1000)/500 < 0.
C9_AlphaAtMostOne ==
    /\ \A i \in DOMAIN particles : 0 <= particles[i].alpha
    /\ [][AlphaStep]_vars

\* a particle whose alpha is negative
C9_Witness == \E i \in DOMAIN particles : particles[i].alpha < 0

\* C7: the hit test accepts a click at canvas point (px, py) exactly when
\* W - textWidth - 20 <= px <= W - 20 and (H - 20) - 1.2 * fontSize <= py <= H - 20,
\* edges included, and an accepted click starts the explosion while a rejected one
\* does not; on the 1000 x 800 canvas with text width 200 the click at (800, 775) is
\* accepted and the click at (50, 50) is not.
C7_HitTestIsTheBox ==
    /\ [](\A pt \in HitPoints :
             /\ Hits(pt) <=> InsideBox(pt)
             /\ (InsideBox(pt) /\ CanExplode)
                   => ENABLED (Click(pt) /\ isExploding' /\ scheduled' = scheduled + 1))
    /\ [][\A pt \in HitPoints :
             (Click(pt) /\ ~InsideBox(pt)) => UNCHANGED <<isExploding, scheduled>>]_vars
    /\ []((canvasW = 1000 /\ canvasH = 800 /\ textWidth = 200)
             => Hits(<<800, 775>>) /\ ~Hits(<<50, 50>>))

\* the 1000 x 800 field with text width 200 has been clicked into its explosion
C7_Witness ==
    /\ canvasW = 1000 /\ canvasH = 800 /\ textWidth = 200
    /\ isExploding /\ scheduled = 1
    /\ InsideBox(<<800, 775>>) /\ ~InsideBox(<<50, 50>>)

\* alpha (as a numerator over 500) the spec gives for an elapsed time
FadeAt(elapsed) == IF elapsed <= 1000 THEN 500 ELSE 500 - (elapsed - 1000)

\* C10: a particle updated in the explosion has alpha 1 while elapsed <= 1000 ms
\* (at 900 ms, say), alpha 1 - (elapsed - 1000)/500 after that, and alpha 0 at 1500 ms.
C10_FadeSchedule ==
    (isExploding /\ frames >= 2)
       => \A i \in DOMAIN particles :
             LET elapsed == now - explosionStartTime
             IN  /\ particles[i].alpha = FadeAt(elapsed)
                 /\ elapsed = 900 => particles[i].alpha = 500
                 /\ elapsed = 1500 => particles[i].alpha = 0

\* a frame has run 1200 ms into the explosion and left every particle at alpha 0.6
C10_Witness ==
    /\ isExploding /\ frames >= 2 /\ particles # <<>>
    /\ now - explosionStartTime = 1200
    /\ \A i \in DOMAIN particles : particles[i].alpha = 300

\* a particle as its constructor leaves it: at its base position, at rest, alpha 1
Fresh(p) ==
    /\ p.x = p.baseX /\ p.y = p.baseY
    /\ p.vx = 0 /\ p.vy = 0
    /\ p.alpha = fadeOutDuration

\* C11: a resize replaces the particle collection with a freshly built one: the
\* collection after handleResize is one createParticles() builds for the new canvas,
\* so it holds no particle of the old collection (the frame loop and the activations
\* work on the current collection alone), and every particle of it is at its base
\* position with zero velocity and alpha 1.  (A resize leaves the clock, the pointer
\* and the counters alone: the steps that do are looked at.)
C11_ResizeBuildsFreshField ==
    [][(/\ appState = "ready"
        /\ UNCHANGED <<now, mouse, frames, scheduled, navigations, uncaught>>
        /\ \E v \in Viewports : Resize(v))
          => /\ \E f \in Fields(canvasW', canvasH') : particles' = f.particles
             /\ \A i \in DOMAIN particles' : Fresh(particles'[i])]_vars

\* a field built by a resize in the middle of an explosion: the flag is still set and
\* the redirect still pending, yet every particle is fresh, none carries an explosion
\* velocity
C11_Witness ==
    /\ appState = "ready" /\ isExploding /\ scheduled = 1 /\ timers # <<>>
    /\ Len(particles) = 2
    /\ \A i \in DOMAIN particles : Fresh(particles[i])

\* C12: a tap (touchend) is handled like a click at the tapped point: the handler
\* raises no error, and a tap inside the text bounding box while isExploding is false
\* does what the click there does: it sets isExploding and schedules a redirect.
C12_TapActsLikeClick ==
    [][\A touches \in TouchLists :
          (appState = "ready" /\ Touch(touches))
             => /\ uncaught' = uncaught
                /\ \A pt \in ClientPoints :
                      (touches = <<pt>> /\ InsideBox(pt) /\ ~isExploding)
                         => Click(pt) /\ isExploding' /\ scheduled' = scheduled + 1]_vars

\* C13: a setup failure in App.init is caught there (no error leaves the load
\* handler), and the resize events that follow it raise no error and create neither
\* particles nor timers: while the page is in a state a failed setup left it in, the
\* collection is empty, no redirect is scheduled and no frame is pending.
C13_SetupFailureIsContained ==
    appState \in {"failed", "constructed"}
       => /\ ~uncaught
          /\ particles = <<>>
          /\ timers = <<>> /\ scheduled = 0
          /\ rafPending = 0

\* C14: with the pointer absent (this.mouse.x and this.mouse.y null) and no explosion
\* under way, update takes the return-to-rest branch for every particle wherever it
\* is: a frame tick maps every particle by that branch, and the first frame, run by
\* init(), leaves every particle as it was built.
C14_AbsentPointerReturnsToRest ==
    /\ []((appState = "ready" /\ frames = 1 /\ mouse.x = NULL /\ ~isExploding)
             => \A i \in DOMAIN particles : Fresh(particles[i]))
    /\ [][(Tick /\ mouse.x = NULL /\ ~isExploding)
             => particles' = [i \in DOMAIN particles |-> UpdateReturn(particles[i])]]_vars

\* C15: an activation inside the bounding box while isExploding is false is one step
\* that sets isExploding, sets explosionStartTime to the current time, calls explode()
\* once on every particle of the collection (each keeps all but its velocity, which
\* becomes an explosion velocity) and schedules exactly one redirect timer; and such
\* an activation is never ignored.
C15_ActivationStartsExplosionAtOnce ==
    /\ [][\A pt \in ClientPoints :
             (appState = "ready" /\ InsideBox(pt) /\ ~isExploding /\ Activate(pt))
                => /\ isExploding'
                   /\ explosionStartTime' = now
                   /\ DOMAIN particles' = DOMAIN particles
                   /\ \A i \in DOMAIN particles :
                         \E v \in ExplosionVelocities :
                             particles'[i] = Explode(particles[i], v)
                   /\ timers' = Append(timers, [at |-> now, delay |-> explosionDuration])
                   /\ scheduled' = scheduled + 1]_vars
    /\ [](\A pt \in ClientPoints :
             (appState = "ready" /\ InsideBox(pt) /\ ~isExploding /\ CanExplode)
                => /\ ENABLED (Click(pt) /\ isExploding')
                   /\ ENABLED (Touch(<<pt>>) /\ isExploding'))

\* the state right after the first activation of a two-particle field: both particles
\* carry an explosion velocity and are still where they were, one redirect is pending
C15_Witness ==
    /\ isExploding /\ explosionStartTime = now
    /\ scheduled = 1 /\ Len(timers) = 1
    /\ Len(particles) = 2
    /\ \A i \in DOMAIN particles :
          /\ <<particles[i].vx, particles[i].vy>> \in ExplosionVelocities
          /\ particles[i].x = particles[i].baseX /\ particles[i].y = particles[i].baseY

\* the base positions of a collection, in order
Bases(ps) == [i \in DOMAIN ps |-> <<ps[i].baseX, ps[i].baseY>>]

\* C16: a particle's base position is never modified after its construction: the base
\* positions of the collection are the sample points createParticles() built it from
\* on the current canvas, and no step other than a rebuild of the collection - no
\* frame tick in the idle or the exploding branch, no explode(), no pointer move,
\* click or tap - changes any of them.
C16_BasePositionIsFixed ==
    /\ [](appState = "ready"
             => \E f \in Fields(canvasW, canvasH) : Bases(f.particles) = Bases(particles))
    /\ [][(appState = "ready" /\ Bases(particles') # Bases(particles))
             => \E v \in Viewports : Resize(v)]_vars

\* a particle that was exploded and then moved and faded by frame ticks, the pointer
\* being on the canvas: it is away from its base position, which is still its sample
\* point
C16_Witness ==
    /\ isExploding /\ mouse.x # NULL /\ frames >= 3
    /\ \E i \in DOMAIN particles :
          /\ particles[i].x # particles[i].baseX
          /\ particles[i].y # particles[i].baseY
          /\ particles[i].alpha < fadeOutDuration
          /\ particles[i].baseX = 78000 /\ particles[i].baseY = 78000

\* C17: while isExploding is true a frame tick moves every particle by exactly its
\* velocity and leaves the velocity as it is - no damping, no spring, no pointer
\* force - wherever the pointer is, absent included.
C17_ExplosionIgnoresPointer ==
    [][(isExploding /\ Tick)
          => /\ DOMAIN particles' = DOMAIN particles
             /\ \A i \in DOMAIN particles :
                   /\ particles'[i].x = particles[i].x + particles[i].vx
                   /\ particles'[i].y = particles[i].y + particles[i].vy
                   /\ particles'[i].vx = particles[i].vx
                   /\ particles'[i].vy = particles[i].vy]_vars

\* the pointer is within maxDistance of a particle that two exploding frame ticks
\* have carried exactly twice its explosion velocity away from its base position
C17_Witness ==
    /\ isExploding /\ mouse.x # NULL /\ mouse.y # NULL
    /\ \E i \in DOMAIN particles :
          /\ IsNear(mouse.x[1] - particles[i].x, mouse.y[1] - particles[i].y)
          /\ <<particles[i].vx, particles[i].vy>> \in ExplosionVelocities
          /\ particles[i].x = particles[i].baseX + 2 * particles[i].vx
          /\ particles[i].y = particles[i].baseY + 2 * particles[i].vy

\* C18: once init() has run exactly one frame is pending at all times, and none
\* before; a frame tick updates every particle of the current collection once, in
\* collection order, with the pointer, clock and explosion state of that moment, and
\* leaves exactly one frame pending; no resize, activation, redirect or empty
\* collection stops the loop (a tick stays possible) or starts a second one.
C18_OneFramePending ==
    /\ [](appState = "ready" => rafPending = 1)
    /\ [](appState \in {"unloaded", "failed"} => rafPending = 0)
    /\ []((appState = "ready" /\ frames < MaxFrames) => ENABLED Tick)
    /\ [][Tick
             => /\ particles' =
                      [i \in DOMAIN particles |->
                          Update(particles[i], mouse.x, mouse.y, now, isExploding,
                                 explosionStartTime, explosionDuration, fadeOutDuration)]
                /\ rafPending' = 1
                /\ frames' = frames + 1]_vars

\* the loop is alive, with one frame pending, after three frames, an activation, the
\* expiry of its redirect timer and a resize that left the collection empty
C18_Witness ==
    /\ appState = "ready" /\ rafPending = 1
    /\ frames >= 3
    /\ isExploding /\ navigations >= 1
    /\ particles = <<>>

\* the stride the spec gives for a device pixel ratio (in hundredths):
\* max(1, floor(3 * ratio))
StrideOf(dpr) == IF 3 * dpr < 100 THEN 1 ELSE (3 * dpr) \div 100

\* the mask alpha at pixel (x, y) of the canvas exceeds 200
Covered(x, y) ==
    \E m \in Rasterize(canvasW - textWidth - margin, canvasH - margin) :
        m[1] = x /\ m[2] = y /\ m[3] > 200

\* ps holds exactly one particle for every covered cell of the stride grid of the
\* canvas and none for any other place, in row-major order
IsSampling(ps, step) ==
    /\ \A x \in 0..(canvasW - 1), y \in 0..(canvasH - 1) :
          Cardinality({i \in DOMAIN ps : Bases(ps)[i] = <<100 * x, 100 * y>>})
             = IF x % step = 0 /\ y % step = 0 /\ Covered(x, y) THEN 1 ELSE 0
    /\ \A i \in DOMAIN ps :
          /\ ps[i].baseX % (100 * step) = 0 /\ ps[i].baseY % (100 * step) = 0
          /\ 0 <= ps[i].baseX /\ ps[i].baseX < 100 * canvasW
          /\ 0 <= ps[i].baseY /\ ps[i].baseY < 100 * canvasH
    /\ \A i, j \in DOMAIN ps :
          i < j => \/ ps[i].baseY < ps[j].baseY
                   \/ ps[i].baseY = ps[j].baseY /\ ps[i].baseX < ps[j].baseX

\* C19: createParticles() builds exactly one particle for every cell of the stride
\* grid whose mask alpha is above 200 and none for any other cell, with the stride
\* max(1, floor(3 * devicePixelRatio)): the base coordinates are multiples of the
\* stride inside the canvas and the particles stand in row-major order (y outer, x
\* inner); the mask, the canvas size and the stride thus fix the sequence of base
\* positions, whatever the random draws of the particles.
C19_SamplingIsTheStrideGrid ==
    /\ [](\E dpr \in SampleRatios : IsSampling(particles, StrideOf(dpr)))
    /\ [][\A dpr \in SampleRatios :
             Resample(dpr) => /\ IsSampling(particles', StrideOf(dpr))
                              /\ \A i \in DOMAIN particles' : Fresh(particles'[i])]_vars
    /\ StrideOf(50) = 1 /\ StrideOf(100) = 3 /\ StrideOf(150) = 4 /\ StrideOf(200) = 6

\* a freshly built collection of three particles: one in an upper row first, then two
\* of the row below it from left to right
C19_Witness ==
    /\ Len(particles) = 3
    /\ \A i \in DOMAIN particles : Fresh(particles[i])
    /\ particles[1].baseY < particles[2].baseY
    /\ particles[2].baseY = particles[3].baseY
    /\ particles[2].baseX < particles[3].baseX
    /\ particles[1].baseX > particles[2].baseX

\* an activation with a touch point or a click, a pointer move, a frame tick or a
\* resize in the small windows
EdgeEvent ==
    \/ Tick
    \/ \E pt \in EdgeMousePoints : MouseMove(pt) \/ TouchMove(pt)
    \/ \E pt \in EdgePoints : Click(pt) \/ Touch(<<pt>>)
    \/ \E v \in EdgeViewports : Resize(v)

\* C20: a zero-sized canvas and an empty sample set are valid states: whenever the
\* canvas element exists init() completes, having started the frame loop, and leaves
\* an empty collection on a canvas without pixels; frame ticks, pointer moves,
\* activations and resizes on an empty field raise no error and leave the loop running.
C20_EmptyFieldIsValid ==
    /\ [](appState \notin {"unloaded", "failed"} => appState = "ready" /\ rafPending = 1)
    /\ []((appState = "ready" /\ (canvasW = 0 \/ canvasH = 0)) => particles = <<>>)
    /\ [][(appState = "ready" /\ particles = <<>> /\ EdgeEvent)
             => /\ uncaught' = uncaught
                /\ appState' = "ready"
                /\ rafPending' = 1]_vars

\* every particle is at rest, so close to its base position that the return force,
\* a twentieth of the displacement, is below the model's resolution (within 0.2 px)
Settled ==
    \A i \in DOMAIN particles :
       /\ Quot((particles[i].baseX - particles[i].x) * 5, 100) = 0
       /\ Quot((particles[i].baseY - particles[i].y) * 5, 100) = 0
       /\ particles[i].vx = 0
       /\ particles[i].vy = 0

\* C21: in the idle field, with the pointer absent or resting farther than 35 px from
\* every particle, repeated frames bring every particle to its base position and its
\* velocity to zero, whatever displacement and velocity it started from, and keep it
\* there.
C21_IdleParticlesSettle == <>[]Settled

\* the squared speed of a particle, in (hundredths of a pixel per frame) squared
SpeedSquared(p) == p.vx * p.vx + p.vy * p.vy

\* C22: in every reachable state where isExploding is true every particle of the
\* current collection has received explode(): its velocity has a speed of at least 2
\* and less than 7 px per frame, so none sits with zero velocity while the field is
\* exploding.
C22_ExplodingParticlesFly ==
    isExploding =>
        \A i \in DOMAIN particles :
           /\ SpeedSquared(particles[i]) >= 200 * 200
           /\ SpeedSquared(particles[i]) < 700 * 700

\* the pointer has a position and it is less than maxDistance from particle p
PointerWithinReach(p) ==
    /\ mouse.x \notin {NULL, NaN}
    /\ mouse.y \notin {NULL, NaN}
    /\ IsNear(mouse.x[1] - p.x, mouse.y[1] - p.y)

\* no explosion has started, every particle is as its constructor left it and the
\* pointer is within reach of none
FieldAtRest ==
    /\ ~isExploding
    /\ \A i \in DOMAIN particles :
          Fresh(particles[i]) /\ ~PointerWithinReach(particles[i])

\* C23: rest is a fixed point: a frame tick outside an explosion leaves unchanged every
\* particle that is at its base position with zero velocity and has no pointer within
\* 35 px of it; hence, as long as no explosion has started and the pointer has come
\* within 35 px of no particle, every particle of the field stays exactly at its base
\* position, at rest, with alpha 1.
C23_RestIsAFixedPoint ==
    /\ [][(Tick /\ ~isExploding)
             => \A i \in DOMAIN particles :
                   (Fresh(particles[i]) /\ ~PointerWithinReach(particles[i]))
                      => particles'[i] = particles[i]]_vars
    /\ [][(FieldAtRest /\ ~isExploding')
             => \A i \in DOMAIN particles' : Fresh(particles'[i])]_vars

\* C24: a pointer-move event (mousemove or touchmove) changes only the recorded pointer
\* position: it records the event's point in canvas coordinates and leaves isExploding,
\* explosionStartTime, the particle collection with every particle's state and the
\* pending timers as they were; and a pointer move is taken whenever the field is set up.
C24_PointerMoveOnlyRecordsThePointer ==
    /\ [][\A pt \in MousePoints :
             (MouseMove(pt) \/ TouchMove(pt))
                => /\ mouse' = PointerAt(pt)
                   /\ UNCHANGED <<isExploding, explosionStartTime, particles, timers>>]_vars
    /\ [](appState = "ready"
             => \A pt \in MousePoints : ENABLED MouseMove(pt) /\ ENABLED TouchMove(pt))

\* the pointer has been recorded while an explosion is under way, its particles in
\* flight and its redirect pending
C24_Witness ==
    /\ mouse.x # NULL
    /\ isExploding
    /\ timers # <<>>
    /\ \E i \in DOMAIN particles : ~Fresh(particles[i])

====
